---- MODULE Spec2Model ----
(***************************************************************************)
(* Model of the ai_bias_corpus_toolkit pipeline:                           *)
(*   - the clean stage (clean_merge.main / harvest_and_clean.run_clean):   *)
(*     load_raw, normalize, the empty-title filter, dedupe, id assignment, *)
(*     enrichment and projection;                                          *)
(*   - the harvest stage (harvest.main / harvest_and_clean.run_harvest):   *)
(*     harvest_rss, harvest_openalex, harvest_gdelt.                       *)
(*                                                                         *)
(* A Python string is a sequence of one-character strings, so that strip,  *)
(* split, urlparse and the similarity score are computed, not assumed.     *)
(* A table cell is a tagged record: Null (None / NaN / NaT), Str(s),       *)
(* Ts(n) (a parsed timestamp) or Num(n).                                   *)
(***************************************************************************)
EXTENDS Integers, Sequences, FiniteSets, TLC

VARIABLES
    entry,      \* which entry point runs the clean stage
    raw_dir,    \* the tables found in raw_dir: a sequence of frames
    do_extract, \* the enrichment flag (--extract-text / EXTRACT_TEXT)
    pc,         \* position of the clean stage
    df,         \* the table the clean stage works on
    order,      \* dedupe: the sort's indexer (sorted position -> position before)
    keep,       \* dedupe: positions kept as representatives
    seen,       \* dedupe: the absorbed flags
    i,          \* dedupe: outer loop index (1-based)
    j,          \* dedupe: inner loop index (1-based)
    prev,       \* the table the last dedupe call was given (pure-function runs)
    runs,       \* number of dedupe calls completed (pure-function runs)
    rep,        \* dedupe, history: rep[n] is the position that absorbed n, or 0
    exit_code,  \* process exit status of the clean stage, -1 while running
    out,        \* the persisted output table, or NoTable
    since,      \* harvest: first day of the window
    until,      \* harvest: last day of the window
    hpc,        \* harvest: the adapter run_harvest calls next, or how it ended
    calls,      \* harvest: the adapters invoked so far, in order
    batch,      \* harvest: what the adapter that ran last wrote to outdir
    requests,   \* harvest: the date ranges the adapter that ran last asked for
    events,     \* harvest: the requests and sleeps of the adapter that ran last
    total       \* harvest: rows harvested so far

cleanVars == <<entry, raw_dir, do_extract, pc, df, order, keep, seen, i, j,
               rep, prev, runs, exit_code, out>>

harvestVars == <<since, until, hpc, calls, batch, requests, events, total>>

vars == <<cleanVars, harvestVars>>

----------------------------------------------------------------------------
(* Cells *)

Null == [k |-> "null"]
Str(s) == [k |-> "str", v |-> s]
Ts(n) == [k |-> "ts", v |-> n]
Num(n) == [k |-> "int", v |-> n]

IsStr(c) == c.k = "str"
IsNull(c) == c.k = "null"

\* Python truthiness of a cell holding None or a str
Truthy(c) == IsStr(c) /\ c.v # <<>>

----------------------------------------------------------------------------
(* Python strings *)

\* the characters of the model's strings, in code point order
Alphabet == <<" ", "-", "/", "0", "1", "2", "3", "4", "5", "6", "7", "8", "9",
              ":", "a", "b", "c", "d", "e", "f", "g", "h", "i", "j", "k", "l",
              "m", "n", "o", "p", "q", "r", "s", "t", "u", "v", "w", "x", "y",
              "z">>

Ord(c) == CHOOSE n \in 1..Len(Alphabet) : Alphabet[n] = c

Whitespace == {" "}

IsSpace(c) == c \in Whitespace
IsDigit(c) == c \in {"0", "1", "2", "3", "4", "5", "6", "7", "8", "9"}
IsAlpha(c) == Ord(c) >= Ord("a")

RECURSIVE LStrip(_)
LStrip(s) == IF s # <<>> /\ IsSpace(Head(s)) THEN LStrip(Tail(s)) ELSE s

RECURSIVE RStrip(_)
RStrip(s) ==
    IF s # <<>> /\ IsSpace(s[Len(s)]) THEN RStrip(SubSeq(s, 1, Len(s) - 1)) ELSE s

\* str.strip()
Strip(s) == RStrip(LStrip(s))

Range(s) == {s[n] : n \in 1..Len(s)}

\* index of the first character of s at or after position n that is in cs,
\* Len(s) + 1 when there is none
RECURSIVE FindFirst(_, _, _)
FindFirst(s, n, cs) ==
    IF n > Len(s) THEN Len(s) + 1
    ELSE IF s[n] \in cs THEN n
    ELSE FindFirst(s, n + 1, cs)

NonWhitespace == Range(Alphabet) \ Whitespace

\* str.split(): the maximal runs of non-whitespace characters, from
\* position n on
RECURSIVE SplitFrom(_, _)
SplitFrom(s, n) ==
    LET start == FindFirst(s, n, NonWhitespace)
        stop == FindFirst(s, start, Whitespace)
    IN IF start > Len(s) THEN <<>>
       ELSE <<SubSeq(s, start, stop - 1)>> \o SplitFrom(s, stop)

Split(s) == SplitFrom(s, 1)

\* s < t in Python's str ordering
RECURSIVE StrLess(_, _)
StrLess(s, t) ==
    IF t = <<>> THEN FALSE
    ELSE IF s = <<>> THEN TRUE
    ELSE IF Head(s) = Head(t) THEN StrLess(Tail(s), Tail(t))
    ELSE Ord(Head(s)) < Ord(Head(t))

\* sorted(tokens) for a set of strings
RECURSIVE SortedTokens(_)
SortedTokens(S) ==
    IF S = {} THEN <<>>
    ELSE LET m == CHOOSE t \in S : \A u \in S : u = t \/ StrLess(t, u)
         IN <<m>> \o SortedTokens(S \ {m})

\* " ".join(toks)
RECURSIVE Join(_)
Join(toks) ==
    IF toks = <<>> THEN <<>>
    ELSE IF Len(toks) = 1 THEN toks[1]
    ELSE toks[1] \o <<" ">> \o Join(Tail(toks))

Max(a, b) == IF a >= b THEN a ELSE b

\* one row of the longest-common-subsequence table: row[c + 1] is the LCS
\* length of the prefix of s read so far and the first c characters of t
RECURSIVE LcsRow(_, _, _, _)
LcsRow(prevRow, ch, t, cur) ==
    LET c == Len(cur)
    IN IF c > Len(t) THEN cur
       ELSE LcsRow(prevRow, ch, t,
                   Append(cur,
                          IF t[c] = ch THEN prevRow[c] + 1
                          ELSE Max(prevRow[c + 1], cur[c])))

RECURSIVE LcsRows(_, _, _)
LcsRows(s, t, row) ==
    IF s = <<>> \/ Len(row) = 1 THEN row[Len(row)]
    ELSE LcsRows(Tail(s), t, LcsRow(row, Head(s), t, <<0>>))

LcsLen(s, t) == LcsRows(s, t, [c \in 1..(Len(t) + 1) |-> 0])

\* rapidfuzz Indel distance: insertions and deletions turning s into t
IndelDistance(s, t) == Len(s) + Len(t) - 2 * LcsLen(s, t)

\* rapidfuzz _norm_distance, 100 - 100 * dist / lensum, rounded down to an
\* integer: every threshold the program compares a score with is an integer
NormDistance(dist, lensum) ==
    IF lensum = 0 THEN 100
    ELSE 100 - ((100 * dist + lensum - 1) \div lensum)

\* rapidfuzz.fuzz.token_set_ratio(s1, s2), rounded down to an integer
token_set_ratio(s1, s2) ==
    LET tokens_a == Range(Split(s1))
        tokens_b == Range(Split(s2))
        intersect == tokens_a \cap tokens_b
        diff_ab == tokens_a \ tokens_b
        diff_ba == tokens_b \ tokens_a
        diff_ab_joined == Join(SortedTokens(diff_ab))
        diff_ba_joined == Join(SortedTokens(diff_ba))
        ab_len == Len(diff_ab_joined)
        ba_len == Len(diff_ba_joined)
        sect_len == Len(Join(SortedTokens(intersect)))
        sep == IF sect_len # 0 THEN 1 ELSE 0
        sect_ab_len == sect_len + sep + ab_len
        sect_ba_len == sect_len + sep + ba_len
        result == NormDistance(IndelDistance(diff_ab_joined, diff_ba_joined),
                               sect_ab_len + sect_ba_len)
        sect_ab_ratio == NormDistance(sep + ab_len, sect_len + sect_ab_len)
        sect_ba_ratio == NormDistance(sep + ba_len, sect_len + sect_ba_len)
    IN IF tokens_a = {} \/ tokens_b = {} THEN 0
       ELSE IF intersect # {} /\ (diff_ab = {} \/ diff_ba = {}) THEN 100
       ELSE IF sect_len = 0 THEN result
       ELSE Max(result, Max(sect_ab_ratio, sect_ba_ratio))

----------------------------------------------------------------------------
(* urlparse and to_datetime *)

IsSchemeChar(c) == IsAlpha(c) \/ IsDigit(c) \/ c = "-"

\* urllib.parse.urlparse(u).netloc: drop a leading "scheme:", then the host
\* is what follows "//" up to the next "/" (the model's strings hold no
\* "?" or "#")
Netloc(u) ==
    LET colon == FindFirst(u, 1, {":"})
        hasScheme == /\ colon > 1
                     /\ colon <= Len(u)
                     /\ IsAlpha(u[1])
                     /\ \A n \in 1..(colon - 1) : IsSchemeChar(u[n])
        rest == IF hasScheme THEN SubSeq(u, colon + 1, Len(u)) ELSE u
    IN IF Len(rest) >= 2 /\ rest[1] = "/" /\ rest[2] = "/"
       THEN SubSeq(rest, 3, FindFirst(rest, 3, {"/"}) - 1)
       ELSE <<>>

DigitVal(c) == Ord(c) - Ord("0")

IsLeap(y) == y % 4 = 0 /\ (y % 100 # 0 \/ y % 400 = 0)

DaysIn(y, m) ==
    IF m = 2 THEN (IF IsLeap(y) THEN 28 + 1 ELSE 28)
    ELSE IF m \in {4, 6, 9, 11} THEN 30
    ELSE 31

\* pd.to_datetime(cell, errors="coerce") on one cell. The model's date
\* strings are ISO-8601 calendar dates (YYYY-MM-DD) or text that is no date;
\* a timestamp is held as the integer YYYYMMDD, which orders as the date does.
to_datetime(c) ==
    IF ~IsStr(c) THEN Null
    ELSE LET s == c.v
             shaped == /\ Len(s) = 10
                       /\ s[5] = "-" /\ s[8] = "-"
                       /\ \A n \in {1, 2, 3, 4, 6, 7, 9, 10} : IsDigit(s[n])
             y == 1000 * DigitVal(s[1]) + 100 * DigitVal(s[2])
                    + 10 * DigitVal(s[3]) + DigitVal(s[4])
             m == 10 * DigitVal(s[6]) + DigitVal(s[7])
             d == 10 * DigitVal(s[9]) + DigitVal(s[10])
         IN IF shaped /\ m \in 1..12 /\ d >= 1 /\ d <= DaysIn(y, m)
            THEN Ts(10000 * y + 100 * m + d)
            ELSE Null

----------------------------------------------------------------------------
(* Tables: [columns: sequence of names, rows: sequence of name -> cell] *)

SCHEMA == <<"id", "date_pub", "type_source", "titre", "lien", "langue",
            "controverse", "secteur", "territoire", "acteurs", "role_acteurs",
            "rapports_pouvoir", "issue", "mots_cles", "extrait_citation",
            "note_analytique", "source_name", "source_type", "source_country">>

Frame(cols, rows) == [columns |-> cols, rows |-> rows]

\* DataFrame.empty: an axis of length 0
Empty(t) == Len(t.columns) = 0 \/ Len(t.rows) = 0

\* the names of cols that are not in have, in the order of cols
RECURSIVE Missing(_, _)
Missing(cols, have) ==
    IF cols = <<>> THEN <<>>
    ELSE (IF Head(cols) \in have THEN <<>> ELSE <<Head(cols)>>)
         \o Missing(Tail(cols), have)

\* Widen with the missing cells set to the empty string
WidenEmpty(row, cols) ==
    [c \in Range(cols) |-> IF c \in DOMAIN row THEN row[c] ELSE Str(<<>>)]

\* a row widened to the columns cols, the cells it lacks being NaN / None
Widen(row, cols) ==
    [c \in Range(cols) |-> IF c \in DOMAIN row THEN row[c] ELSE Null]

\* df[c] = values, one per row: an existing column keeps its place, a new
\* one is appended
SetColumn(t, c, values) ==
    Frame(IF c \in Range(t.columns) THEN t.columns ELSE Append(t.columns, c),
          [n \in 1..Len(t.rows) |->
              [d \in Range(t.columns) \cup {c} |->
                  IF d = c THEN values[n] ELSE t.rows[n][d]]])

\* pd.concat(frames, ignore_index=True): the union of the columns in order of
\* first appearance, the rows one frame after the other
RECURSIVE Concat(_)
Concat(frames) ==
    IF Len(frames) = 1 THEN frames[1]
    ELSE LET front == Concat(SubSeq(frames, 1, Len(frames) - 1))
             last == frames[Len(frames)]
             cols == front.columns \o Missing(last.columns, Range(front.columns))
         IN Frame(cols,
                  [n \in 1..(Len(front.rows) + Len(last.rows)) |->
                      IF n <= Len(front.rows) THEN Widen(front.rows[n], cols)
                      ELSE Widen(last.rows[n - Len(front.rows)], cols)])

\* load_raw(raw_dir): every .csv table of the directory, concatenated
load_raw(dir) ==
    IF dir = <<>> THEN Frame(SCHEMA, <<>>) ELSE Concat(dir)

\* Series.fillna("").str.strip() on one cell
FillStrip(c) == IF IsStr(c) THEN Str(Strip(c.v)) ELSE Str(<<>>)

NormTitre(row) == FillStrip(row["titre"])
NormLien(row) == FillStrip(row["lien"])
NormDate(row) == to_datetime(row["date_pub"])
\* lambda u: urlparse(u).netloc if isinstance(u, str) and u else None
DomainOf(row) ==
    IF Truthy(row["lien"]) THEN Str(Netloc(row["lien"].v)) ELSE Null

\* normalize(df)
normalize(t) ==
    LET cols == t.columns \o Missing(SCHEMA, Range(t.columns))
        t0 == Frame(cols, [n \in 1..Len(t.rows) |-> Widen(t.rows[n], cols)])
        t1 == SetColumn(t0, "titre", [n \in 1..Len(t0.rows) |-> NormTitre(t0.rows[n])])
        t2 == SetColumn(t1, "lien", [n \in 1..Len(t1.rows) |-> NormLien(t1.rows[n])])
        t3 == SetColumn(t2, "date_pub", [n \in 1..Len(t2.rows) |-> NormDate(t2.rows[n])])
    IN SetColumn(t3, "domain", [n \in 1..Len(t3.rows) |-> DomainOf(t3.rows[n])])

\* HasTitre without the query("titre != ''")
HasTitreNotNull(row) == ~IsNull(row["titre"])

HasTitre(row) == ~IsNull(row["titre"]) /\ row["titre"] # Str(<<>>)

\* df.dropna(subset=["titre"]).query("titre != ''")
drop_untitled(t) == Frame(t.columns, SelectSeq(t.rows, HasTitre))

----------------------------------------------------------------------------
(* dedupe *)

DefaultThresh == 90
HighScore == 98

Dated(row) == ~IsNull(row["date_pub"])

\* IsSortIndexer with ascending=True
IsSortIndexerAscending(rows, p) ==
    \A a, b \in 1..Len(rows) :
        a < b =>
            /\ Dated(rows[p[b]]) => Dated(rows[p[a]])
            /\ Dated(rows[p[b]]) =>
                   rows[p[a]]["date_pub"].v <= rows[p[b]]["date_pub"].v
            /\ ~Dated(rows[p[a]]) => p[a] < p[b]

\* p is an indexer df.sort_values("date_pub", ascending=False) can return
\* (kind="quicksort", na_position="last"): dated rows by date descending,
\* rows of equal date in any order (the sort is not stable), then the rows
\* without a date in the order they had
IsSortIndexer(rows, p) ==
    \A a, b \in 1..Len(rows) :
        a < b =>
            /\ Dated(rows[p[b]]) => Dated(rows[p[a]])
            /\ Dated(rows[p[b]]) =>
                   rows[p[a]]["date_pub"].v >= rows[p[b]]["date_pub"].v
            /\ ~Dated(rows[p[a]]) => p[a] < p[b]

Indexers(n) ==
    {p \in [1..n -> 1..n] : \A a, b \in 1..n : p[a] = p[b] => a = b}

Take(t, p) == Frame(t.columns, [n \in 1..Len(p) |-> t.rows[p[n]]])

\* AbsorbRule without the truthiness tests: di==dj and score>=thresh
AbsorbRuleAnyDomain(di, dj, score, thresh) ==
    \/ di = dj /\ score >= thresh
    \/ score >= HighScore

\* AbsorbRule testing the representative's domain only
AbsorbRuleOneSided(di, dj, score, thresh) ==
    \/ Truthy(di) /\ score >= thresh
    \/ score >= HighScore

\* (di and dj and di==dj and score>=thresh) or (score>=98)
AbsorbRule(di, dj, score, thresh) ==
    \/ Truthy(di) /\ Truthy(dj) /\ di = dj /\ score >= thresh
    \/ score >= HighScore

Score(t, a, b) == token_set_ratio(t.rows[a]["titre"].v, t.rows[b]["titre"].v)

----------------------------------------------------------------------------
(* Assembler: id, enrichment, projection *)

NoTable == Frame(<<>>, <<>>)

\* df.insert(0, "id", range(1, len(df)+1)), for a table without an id column
insert_id(t) ==
    Frame(<<"id">> \o t.columns,
          [n \in 1..Len(t.rows) |->
              [c \in Range(t.columns) \cup {"id"} |->
                  IF c = "id" THEN Num(n) ELSE t.rows[n][c]]])

\* maybe_extract(df, do_extract); texts[n] is what extract_text returns for
\* the link of row n
maybe_extract(t, flag, texts) ==
    IF ~flag THEN t
    ELSE Frame(IF "fulltext" \in Range(t.columns) THEN t.columns
               ELSE Append(t.columns, "fulltext"),
               [n \in 1..Len(t.rows) |->
                   [c \in Range(t.columns) \cup {"fulltext"} |->
                       IF c # "fulltext" THEN t.rows[n][c]
                       ELSE IF Truthy(t.rows[n]["lien"]) THEN texts[n]
                       ELSE Null]])

\* cols = SCHEMA + (["fulltext"] if "fulltext" in df.columns else []); df[cols]
project(t) ==
    LET cols == SCHEMA \o (IF "fulltext" \in Range(t.columns)
                           THEN <<"fulltext">> ELSE <<>>)
    IN Frame(cols, [n \in 1..Len(t.rows) |->
                       [c \in Range(cols) |-> t.rows[n][c]]])

Texts == {Null, Str(<<"t">>)}

----------------------------------------------------------------------------
(* The clean stage, step by step *)

\* df = load_raw(raw_dir); if df.empty: report and leave. clean_merge.main
\* calls sys.exit(1); run_clean prints and returns 0, and the process exits 0
LoadRaw ==
    /\ pc = "start"
    /\ df' = load_raw(raw_dir)
    /\ IF Empty(df')
       THEN /\ pc' = "exit"
            /\ exit_code' = (IF entry = "clean_merge.main" THEN 1 ELSE 0)
       ELSE /\ pc' = "loaded"
            /\ exit_code' = exit_code
    /\ UNCHANGED <<entry, raw_dir, do_extract, order, keep, seen, i, j, rep,
                   prev, runs, out>>

\* df = normalize(df)
Normalize ==
    /\ pc = "loaded"
    /\ df' = normalize(df)
    /\ pc' = "normalized"
    /\ UNCHANGED <<entry, raw_dir, do_extract, order, keep, seen, i, j, rep,
                   prev, runs, exit_code, out>>

\* df = df.dropna(subset=["titre"]).query("titre != ''")
DropUntitled ==
    /\ pc = "normalized"
    /\ df' = drop_untitled(df)
    /\ pc' = "filtered"
    /\ UNCHANGED <<entry, raw_dir, do_extract, order, keep, seen, i, j, rep,
                   prev, runs, exit_code, out>>

\* dedupe, entry: sort, reset_index, keep = [], seen = [False]*len(df)
DedupeSort ==
    /\ pc = "filtered"
    /\ \E p \in Indexers(Len(df.rows)) :
          /\ IsSortIndexer(df.rows, p)
          /\ order' = p
          /\ df' = Take(df, p)
    /\ prev' = df
    /\ keep' = <<>>
    /\ seen' = [n \in 1..Len(df.rows) |-> FALSE]
    /\ rep' = [n \in 1..Len(df.rows) |-> 0]
    /\ i' = 1
    /\ j' = 0
    /\ pc' = "outer"
    /\ UNCHANGED <<entry, raw_dir, do_extract, runs, exit_code, out>>

\* DedupeOuter without "if seen[i]: continue"
DedupeOuterNoSkip ==
    /\ pc = "outer"
    /\ i <= Len(df.rows)
    /\ keep' = Append(keep, i)
    /\ j' = i + 1
    /\ pc' = "inner"
    /\ i' = i
    /\ UNCHANGED <<entry, raw_dir, do_extract, df, order, seen, rep, prev,
                   runs, exit_code, out>>

\* one iteration of "for i in range(len(df))" up to its inner loop
DedupeOuter ==
    /\ pc = "outer"
    /\ i <= Len(df.rows)
    /\ IF seen[i]
       THEN /\ i' = i + 1
            /\ UNCHANGED <<keep, j, pc>>
       ELSE /\ keep' = Append(keep, i)
            /\ j' = i + 1
            /\ pc' = "inner"
            /\ i' = i
    /\ UNCHANGED <<entry, raw_dir, do_extract, df, order, seen, rep, prev,
                   runs, exit_code, out>>

\* one iteration of "for j in range(i+1, len(df))", or its end
DedupeInner ==
    /\ pc = "inner"
    /\ IF j > Len(df.rows)
       THEN /\ i' = i + 1
            /\ pc' = "outer"
            /\ UNCHANGED <<j, seen, rep>>
       ELSE /\ j' = j + 1
            /\ UNCHANGED <<i, pc>>
            /\ IF ~seen[j] /\ AbsorbRule(df.rows[i]["domain"],
                                         df.rows[j]["domain"],
                                         Score(df, i, j), DefaultThresh)
               THEN /\ seen' = [seen EXCEPT ![j] = TRUE]
                    /\ rep' = [rep EXCEPT ![j] = i]
               ELSE UNCHANGED <<seen, rep>>
    /\ UNCHANGED <<entry, raw_dir, do_extract, df, order, keep, prev, runs,
                   exit_code, out>>

\* return df.iloc[keep].copy()
DedupeReturn ==
    /\ pc = "outer"
    /\ i > Len(df.rows)
    /\ df' = Take(df, keep)
    /\ runs' = runs + 1
    /\ pc' = "deduped"
    /\ UNCHANGED <<entry, raw_dir, do_extract, order, keep, seen, i, j, rep,
                   prev, exit_code, out>>

\* reset_index, df.insert(0, "id", ...), maybe_extract, projection, to_csv.
\* DataFrame.insert raises ValueError when the column already exists, and
\* nothing catches it: the process ends with a traceback and status 1
Assemble ==
    /\ pc = "deduped"
    /\ pc' = "exit"
    /\ IF "id" \in Range(df.columns)
       THEN /\ exit_code' = 1
            /\ UNCHANGED <<df, out>>
       ELSE /\ \E texts \in [1..Len(df.rows) -> Texts] :
                  df' = project(maybe_extract(insert_id(df), do_extract, texts))
            /\ out' = df'
            /\ exit_code' = 0
    /\ UNCHANGED <<entry, raw_dir, do_extract, order, keep, seen, i, j, rep,
                   prev, runs>>

----------------------------------------------------------------------------
(* The harvest adapters. A date is a day number; day d lies in the month
   d \div MonthLen, every month having MonthLen days. *)

MonthLen == 3
Months == 2
MaxUrls == 2
MaxEntries == 1
MaxPages == 2

Days == 0..(Months * MonthLen - 1)

\* clamp_date(dt, since, until)
clamp_date(dt, s, u) ==
    IF IsNull(dt) THEN Null
    ELSE IF dt.v < s \/ dt.v > u THEN Null
    ELSE dt

RECURSIVE Flatten(_)
Flatten(ss) == IF ss = <<>> THEN <<>> ELSE Head(ss) \o Flatten(Tail(ss))

\* harvest_rss(urls, since, until, rate, outdir): feeds[n] holds, for each
\* entry of the feed at urls[n], the date the entry resolves to (Null when
\* none of its date fields gives one). feedparser.parse does not raise: a
\* feed that cannot be fetched has no entries
harvest_rss(feeds, s, u) ==
    LET Passes(dt) == IsNull(dt) \/ ~IsNull(clamp_date(dt, s, u))
    IN [rows |-> Flatten([n \in 1..Len(feeds) |-> SelectSeq(feeds[n], Passes)]),
        requests |-> <<>>,
        events |-> Flatten([n \in 1..Len(feeds) |-> <<"request", "sleep">>]),
        raised |-> FALSE]

\* date_pub of an OpenAlex work:
\* w.get("publication_date") or (w.get("from_indexed_date") or "").split("T")[0]
WorkDate(w) == IF ~IsNull(w.publication_date) THEN w.publication_date
               ELSE w.from_indexed_date

\* (w.get("primary_location") or {}).get("source",{}).get("display_name")
\* raises AttributeError when primary_location holds "source": null
WorkRaises(w) == w.primary_location = "source_null"

\* the loop goes on to the next page: more is true and results is not empty
HasNextPage(r) == r.ok /\ r.more /\ r.results # <<>>

\* harvest_openalex(conf, since, until, rate, outdir): pages[n] is the answer
\* to the request for page n: ok is FALSE when the request or its JSON
\* decoding raised, more is ("next_cursor" in js or count > page*per_page)
RECURSIVE OpenalexFrom(_, _, _, _)
OpenalexFrom(pages, n, rows, evs) ==
    LET r == pages[n]
        got == rows \o [k \in 1..Len(r.results) |-> WorkDate(r.results[k])]
    IN IF ~r.ok
       THEN [rows |-> rows, events |-> Append(evs, "request"), raised |-> FALSE]
       ELSE IF \E k \in 1..Len(r.results) : WorkRaises(r.results[k])
       THEN [rows |-> rows, events |-> Append(evs, "request"), raised |-> TRUE]
       ELSE IF HasNextPage(r)
       THEN OpenalexFrom(pages, n + 1, got, evs \o <<"request", "sleep">>)
       ELSE [rows |-> got, events |-> Append(evs, "request"), raised |-> FALSE]

harvest_openalex(pages, s, u) ==
    [requests |-> <<<<s, u>>>>] @@ OpenalexFrom(pages, 1, <<>>, <<>>)

MonthStart(d) == d - (d % MonthLen)

\* month_iter(start, end): the first days of the months from start to end
RECURSIVE month_iter(_, _)
month_iter(d, end) ==
    IF d > end THEN <<>> ELSE <<d>> \o month_iter(d + MonthLen, end)

\* the window harvest_gdelt asks for the month starting at mstart
GdeltWindow(mstart, end) ==
    LET mend == mstart + MonthLen - 1
    IN <<mstart, IF mend > end THEN end ELSE mend>>

\* harvest_gdelt(conf, since, until, rate, outdir): answers[n] is the answer
\* to the request for the n-th monthly window
harvest_gdelt(answers, s, u) ==
    LET months == month_iter(MonthStart(s), u)
    IN [rows |-> Flatten([n \in 1..Len(months) |->
                             IF answers[n].ok THEN answers[n].articles ELSE <<>>]),
        requests |-> [n \in 1..Len(months) |-> GdeltWindow(months[n], u)],
        events |-> Flatten([n \in 1..Len(months) |->
                               IF answers[n].ok THEN <<"request", "sleep">>
                               ELSE <<"request">>]),
        raised |-> FALSE]

NoBatch == [source |-> "none", rows |-> <<>>]

\* if rows: pd.DataFrame(rows).to_csv(<source>_<time>.csv)
Written(source, rows) ==
    IF rows # <<>> THEN [source |-> source, rows |-> rows] ELSE NoBatch

\* one adapter call of run_harvest and "total += ..."; an exception the
\* adapter lets through ends run_harvest
Call(name, source, next, r) ==
    /\ calls' = Append(calls, name)
    /\ requests' = r.requests
    /\ events' = r.events
    /\ IF r.raised
       THEN /\ hpc' = "raised"
            /\ batch' = NoBatch
            /\ total' = total
       ELSE /\ hpc' = next
            /\ batch' = Written(source, r.rows)
            /\ total' = total + Len(r.rows)
    /\ UNCHANGED <<since, until>>

DateCells == {Null} \cup {Ts(d) : d \in Days}

SeqsUpTo(S, k) == UNION {[1..m -> S] : m \in 0..k}

Feeds == SeqsUpTo(SeqsUpTo(DateCells, MaxEntries), MaxUrls)

\* total += harvest_rss(conf["sources"].get("rss",[]), ..., label="news")
HarvestRssNews ==
    /\ hpc = "rss_news"
    /\ \E feeds \in Feeds :
          Call("rss_news", "rss", "rss_ngo", harvest_rss(feeds, since, until))

\* total += harvest_rss(conf["sources"].get("ngo_rss",[]), ..., label="ngo")
HarvestRssNgo ==
    /\ hpc = "rss_ngo"
    /\ \E feeds \in Feeds :
          Call("rss_ngo", "rss", "openalex", harvest_rss(feeds, since, until))

\* the works OpenAlex can return for from_publication_date=since and
\* to_publication_date=until: a publication date inside the window, or no
\* date at all; primary_location absent, with a source, or with "source": null
Works ==
    {[publication_date |-> d, from_indexed_date |-> Null, primary_location |-> l] :
        d \in {Null} \cup {Ts(x) : x \in since..until},
        l \in {"none", "source", "source_null"}}

Pages ==
    {[ok |-> FALSE, more |-> FALSE, results |-> <<>>]} \cup
    {[ok |-> TRUE, more |-> m, results |-> rs] :
        m \in BOOLEAN, rs \in SeqsUpTo(Works, MaxEntries)}

\* total += harvest_openalex(conf["sources"].get("openalex",{}), ...)
HarvestOpenalex ==
    /\ hpc = "openalex"
    /\ \E pages \in [1..MaxPages -> Pages] :
          /\ ~HasNextPage(pages[MaxPages])
          /\ Call("openalex", "openalex", "gdelt",
                  harvest_openalex(pages, since, until))

\* what GDELT can answer for the window w: an error, or articles seen inside
\* the window, or without a seendate
Answers(w) ==
    {[ok |-> FALSE, articles |-> <<>>]} \cup
    {[ok |-> TRUE, articles |-> as] :
        as \in SeqsUpTo({Null} \cup {Ts(d) : d \in w[1]..w[2]}, MaxEntries)}

\* total += harvest_gdelt(conf["sources"].get("gdelt",{}), ...)
HarvestGdelt ==
    /\ hpc = "gdelt"
    /\ LET months == month_iter(MonthStart(since), until)
       IN \E answers \in [1..Len(months) -> UNION {Answers(GdeltWindow(months[n], until)) :
                                                      n \in 1..Len(months)}] :
             /\ \A n \in 1..Len(months) :
                   answers[n] \in Answers(GdeltWindow(months[n], until))
             /\ Call("gdelt", "gdelt", "done", harvest_gdelt(answers, since, until))

----------------------------------------------------------------------------
(* Inputs *)

MaxRows == 3
MaxFiles == 2
MaxRuns == 2

\* the columns the harvest adapters write
HarvestColumns == <<"date_pub", "type_source", "titre", "lien", "langue",
                    "mots_cles", "extrait_citation", "source_name",
                    "source_type", "source_country">>

\* a table from elsewhere: no title, and columns outside the schema
ForeignColumns == <<"id", "date_pub", "lien", "fulltext", "domain">>

ColumnChoices == {HarvestColumns, ForeignColumns}

Filler == Str(<<"r">>)

Long(n) == [q \in 1..n |-> "a"]

\* raw rows <<date_pub, titre, lien>> for the whole clean stage: padded and
\* blank titles, a date that is no date, a link without a host
CleanRows ==
    { <<Str(<<"2", "0", "2", "4", "-", "0", "3", "-", "0", "1">>), Str(<<" ", "a", "i", " ", "b", "i", "a", "s", " ">>), Str(<<" ", "s", ":", "/", "/", "x", "/", "p", " ">>)>>,
      <<Str(<<"2", "0", "2", "4", "-", "0", "3", "-", "0", "2">>), Str(<<"a", "i", " ", "b", "i", "a", "s", " ", "n", "o", "w">>), Str(<<"s", ":", "/", "/", "x", "/", "q">>)>>,
      <<Str(<<"s", "o", "o", "n">>), Str(<<"n", "o", "w">>), Str(<<"p">>)>>,
      <<Null, Str(<<" ", " ">>), Null>>,
      <<Str(<<"2", "0", "2", "4", "-", "0", "2", "-", "0", "1">>), Str(<<"u", "n", "r", "e", "l", "a", "t", "e", "d">>), Str(<<"s", ":", "/", "/", "y", "/">>)>> }

\* raw rows for dedupe: titles scoring 100, 98, 90 and less with each other,
\* on equal, different and missing domains, with equal, different and
\* missing dates
DedupeRows ==
    { <<Str(<<"2", "0", "2", "4", "-", "0", "3", "-", "0", "2">>), Str(<<"a", "i", " ", "b", "i", "a", "s">>), Str(<<"s", ":", "/", "/", "x", "/", "a">>)>>,
      <<Str(<<"2", "0", "2", "4", "-", "0", "3", "-", "0", "1">>), Str(<<"a", "i", " ", "b", "i", "a", "s", " ", "n", "o", "w">>), Str(<<"s", ":", "/", "/", "x", "/", "b">>)>>,
      <<Null, Str(<<"n", "o", "w">>), Str(<<"p">>)>>,
      <<Str(<<"2", "0", "2", "4", "-", "0", "3", "-", "0", "2">>), Str(Long(9) \o <<" ", "x">>), Str(<<"s", ":", "/", "/", "x", "/", "a">>)>>,
      <<Str(<<"2", "0", "2", "4", "-", "0", "3", "-", "0", "1">>), Str(Long(9) \o <<" ", "y">>), Str(<<"s", ":", "/", "/", "x", "/", "b">>)>>,
      <<Str(<<"2", "0", "2", "4", "-", "0", "3", "-", "0", "1">>), Str(Long(9) \o <<" ", "y">>), Str(<<"s", ":", "/", "/", "y", "/">>)>>,
      <<Null, Str(Long(9) \o <<" ", "x">>), Null>>,
      <<Str(<<"2", "0", "2", "4", "-", "0", "3", "-", "0", "2">>), Str(Long(9) \o <<" ", "y">>), Str(<<>>)>>,
      <<Str(<<"2", "0", "2", "4", "-", "0", "3", "-", "0", "2">>), Str(Long(49) \o <<" ", "x">>), Str(<<"s", ":", "/", "/", "x", "/", "a">>)>>,
      <<Null, Str(Long(49) \o <<" ", "y">>), Str(<<"s", ":", "/", "/", "y", "/">>)>>,
      <<Str(<<"2", "0", "2", "4", "-", "0", "3", "-", "0", "1">>), Str(Long(9) \o <<" ", "x">>), Str(<<"s", ":", "/", "/", "x", "/", "a">>)>> }

MkRow(cols, r) ==
    [c \in Range(cols) |->
        CASE c = "date_pub" -> r[1]
          [] c = "titre" -> r[2]
          [] c = "lien" -> r[3]
          [] OTHER -> Filler]

RowSeqs(U, k) == UNION {[1..m -> U] : m \in 0..k}

Frames(U, k) ==
    {Frame(cols, [n \in 1..Len(rs) |-> MkRow(cols, rs[n])]) :
        cols \in ColumnChoices, rs \in RowSeqs(U, k)}

\* the directories of at most files tables holding at most k rows in all
RECURSIVE Dirs(_, _, _)
Dirs(U, files, k) ==
    IF files = 0 THEN {<<>>}
    ELSE {<<>>} \cup
         UNION {{<<f>> \o d : d \in Dirs(U, files - 1, k - Len(f.rows))} :
                    f \in Frames(U, k)}

----------------------------------------------------------------------------
(* Specifications *)

\* the harvest stage is not running
HarvestIdle ==
    /\ since = 0
    /\ until = 0
    /\ hpc = "idle"
    /\ calls = <<>>
    /\ batch = NoBatch
    /\ requests = <<>>
    /\ events = <<>>
    /\ total = 0

InitClean ==
    /\ entry \in {"clean_merge.main", "harvest_and_clean.run_clean"}
    /\ raw_dir \in Dirs(CleanRows, MaxFiles, MaxRows)
    /\ do_extract \in BOOLEAN
    /\ pc = "start"
    /\ df = NoTable
    /\ order = <<>>
    /\ keep = <<>>
    /\ seen = <<>>
    /\ rep = <<>>
    /\ i = 0
    /\ j = 0
    /\ prev = NoTable
    /\ runs = 0
    /\ exit_code = -1
    /\ out = NoTable
    /\ HarvestIdle

NextClean ==
    \/ LoadRaw /\ UNCHANGED harvestVars
    \/ Normalize /\ UNCHANGED harvestVars
    \/ DropUntitled /\ UNCHANGED harvestVars
    \/ DedupeSort /\ UNCHANGED harvestVars
    \/ DedupeOuter /\ UNCHANGED harvestVars
    \/ DedupeInner /\ UNCHANGED harvestVars
    \/ DedupeReturn /\ UNCHANGED harvestVars
    \/ Assemble /\ UNCHANGED harvestVars

SpecClean == InitClean /\ [][NextClean]_vars

\* dedupe as a function: its argument is any table normalize and the title
\* filter can hand it, and it may be called again on its own result
InitDedupe ==
    /\ entry = "dedupe"
    /\ \E rs \in RowSeqs(DedupeRows, MaxRows) :
          raw_dir = <<Frame(HarvestColumns,
                            [n \in 1..Len(rs) |-> MkRow(HarvestColumns, rs[n])])>>
    /\ do_extract = FALSE
    /\ pc = "filtered"
    /\ df = drop_untitled(normalize(load_raw(raw_dir)))
    /\ order = <<>>
    /\ keep = <<>>
    /\ seen = <<>>
    /\ rep = <<>>
    /\ i = 0
    /\ j = 0
    /\ prev = NoTable
    /\ runs = 0
    /\ exit_code = -1
    /\ out = NoTable
    /\ HarvestIdle

\* dedupe(dedupe(df))
DedupeAgain ==
    /\ pc = "deduped"
    /\ runs < MaxRuns
    /\ pc' = "filtered"
    /\ UNCHANGED <<entry, raw_dir, do_extract, df, order, keep, seen, i, j,
                   rep, prev, runs, exit_code, out>>

NextDedupe ==
    \/ DedupeSort /\ UNCHANGED harvestVars
    \/ DedupeOuter /\ UNCHANGED harvestVars
    \/ DedupeInner /\ UNCHANGED harvestVars
    \/ DedupeReturn /\ UNCHANGED harvestVars
    \/ DedupeAgain /\ UNCHANGED harvestVars

SpecDedupe == InitDedupe /\ [][NextDedupe]_vars

\* the clean stage is not running
CleanIdle ==
    /\ entry = "harvest"
    /\ raw_dir = <<>>
    /\ do_extract = FALSE
    /\ pc = "idle"
    /\ df = NoTable
    /\ order = <<>>
    /\ keep = <<>>
    /\ seen = <<>>
    /\ rep = <<>>
    /\ i = 0
    /\ j = 0
    /\ prev = NoTable
    /\ runs = 0
    /\ exit_code = -1
    /\ out = NoTable

\* run_harvest with any window since <= until
InitHarvest ==
    /\ CleanIdle
    /\ since \in Days
    /\ until \in Days
    /\ since <= until
    /\ hpc = "rss_news"
    /\ calls = <<>>
    /\ batch = NoBatch
    /\ requests = <<>>
    /\ events = <<>>
    /\ total = 0

NextHarvest ==
    \/ HarvestRssNews /\ UNCHANGED cleanVars
    \/ HarvestRssNgo /\ UNCHANGED cleanVars
    \/ HarvestOpenalex /\ UNCHANGED cleanVars
    \/ HarvestGdelt /\ UNCHANGED cleanVars

SpecHarvest == InitHarvest /\ [][NextHarvest]_vars

----------------------------------------------------------------------------
(* Properties of dedupe *)

InDedupeLoop == pc \in {"outer", "inner"}

Positions == 1..Len(df.rows)

\* the scan is over: every representative has met every later record
ScanOver == pc = "outer" /\ i > Len(df.rows)

\* the absorb rule as the specification words it
SameDomainOrNearIdentical(a, b) ==
    LET da == df.rows[a]["domain"]
        db == df.rows[b]["domain"]
        sc == token_set_ratio(df.rows[a]["titre"].v, df.rows[b]["titre"].v)
    IN \/ /\ da.k = "str" /\ da.v # <<>>
          /\ db.k = "str" /\ db.v # <<>>
          /\ da.v = db.v
          /\ sc >= 90
       \/ sc >= 98

\* C1: while record a is the representative, a later record b that no
\* earlier representative absorbed is absorbed if and only if both have a
\* non-empty domain, the domains are equal and the titles score >= 90, or the
\* titles score >= 98. It holds of each comparison as the inner loop makes
\* it and of all of them when the scan is over; the absorbed records are the
\* ones dedupe drops.
C1_AbsorbRule ==
    /\ InDedupeLoop => \A b \in Positions : seen[b] <=> rep[b] # 0
    /\ (pc = "inner" /\ j > i + 1 /\ rep[j - 1] \in {0, i}) =>
          (rep[j - 1] = i <=> SameDomainOrNearIdentical(i, j - 1))
    /\ ScanOver =>
          \A a \in Range(keep) : \A b \in Positions :
              (a < b /\ (rep[b] = 0 \/ rep[b] >= a)) =>
                  (rep[b] = a <=> SameDomainOrNearIdentical(a, b))
    /\ pc = "deduped" =>
          /\ Range(keep) = {n \in 1..Len(seen) : ~seen[n]}
          /\ df = Take(Take(prev, order), keep)

\* C1 witness: the scan is over; one record was absorbed on the same-domain
\* branch with a score below 98, another scoring >= 90 against the same
\* representative was kept because its domain differs or is missing
C1_Witness ==
    /\ ScanOver
    /\ \E a, b, c \in Positions :
          /\ rep[b] = a /\ Score(df, a, b) < 98
          /\ a < c /\ rep[c] = 0 /\ Score(df, a, c) >= 90

RowBag(t) == [r \in Range(t.rows) |-> Cardinality({n \in 1..Len(t.rows) : t.rows[n] = r})]

\* C3: dedupe applied to its own result returns the same records, and no two
\* records of a result satisfy the absorb rule with each other.
C3_Idempotent ==
    pc = "deduped" =>
        /\ runs >= 2 => RowBag(df) = RowBag(prev)
        /\ \A a, b \in Positions :
              a # b => ~AbsorbRule(df.rows[a]["domain"], df.rows[b]["domain"],
                                   Score(df, a, b), DefaultThresh)

\* C3 witness: a second call has returned; the first one had collapsed
\* records and left at least two for the second to compare
C3_Witness ==
    /\ pc = "deduped" /\ runs = 2
    /\ Len(df.rows) >= 2
    /\ Len(df.rows) < Len(raw_dir[1].rows)

\* C4: the scan order is date_pub descending with the undated records last in
\* the order they arrived in; a record is only absorbed by a kept record
\* before it in that order, so never by an older one, and an undated record
\* never absorbs a dated one.
C4_RecentRepresentative ==
    InDedupeLoop =>
        /\ \A a \in Positions : df.rows[a] = prev.rows[order[a]]
        /\ \A a, b \in Positions :
              a < b =>
                 /\ Dated(df.rows[b]) =>
                       /\ Dated(df.rows[a])
                       /\ df.rows[a]["date_pub"].v >= df.rows[b]["date_pub"].v
                 /\ ~Dated(df.rows[a]) => order[a] < order[b]
        /\ \A b \in Positions :
              rep[b] # 0 =>
                 /\ rep[b] < b
                 /\ rep[b] \in Range(keep)
                 /\ Dated(df.rows[b]) =>
                       /\ Dated(df.rows[rep[b]])
                       /\ df.rows[rep[b]]["date_pub"].v >= df.rows[b]["date_pub"].v

\* C4 witness: a dated record absorbed an undated one that arrived before it,
\* and an older record was absorbed by a strictly more recent one
C4_Witness ==
    /\ InDedupeLoop
    /\ \E b \in Positions :
          /\ rep[b] # 0 /\ ~Dated(df.rows[b]) /\ Dated(df.rows[rep[b]])
          /\ order[b] < order[rep[b]]
    /\ \E b \in Positions :
          /\ rep[b] # 0 /\ Dated(df.rows[b])
          /\ df.rows[rep[b]]["date_pub"].v > df.rows[b]["date_pub"].v

\* records a and b of t satisfy the absorb rule with each other
Matches(t, a, b) ==
    AbsorbRule(t.rows[a]["domain"], t.rows[b]["domain"], Score(t, a, b),
               DefaultThresh)

\* the greedy pass as a function of the sorted rows: the first record is
\* kept, the later ones it matches are dropped, and so on with what is left
RECURSIVE Survivors(_)
Survivors(rows) ==
    IF rows = <<>> THEN <<>>
    ELSE LET first == Head(rows)
             Unmatched(r) ==
                 ~AbsorbRule(first["domain"], r["domain"],
                             token_set_ratio(first["titre"].v, r["titre"].v),
                             DefaultThresh)
         IN <<first>> \o Survivors(SelectSeq(Tail(rows), Unmatched))

\* C12: dedupe is a greedy single pass. A record is dropped only by a kept
\* record before it that it matches directly; an absorbed record is never a
\* representative; a record is kept exactly when it matches no kept record
\* before it, whatever absorbed records it matches. So of three records A, B,
\* C in sort order with A matching B, B matching C and A not matching C, the
\* result is A, C.
C12_GreedyNotTransitive ==
    /\ InDedupeLoop =>
          /\ \A a \in Range(keep) : ~seen[a]
          /\ \A b \in Positions :
                rep[b] # 0 =>
                   /\ rep[b] \in Range(keep)
                   /\ rep[b] < b
                   /\ Matches(df, rep[b], b)
    /\ ScanOver =>
          \A c \in Positions :
              seen[c] <=> \E a \in Range(keep) : a < c /\ Matches(df, a, c)
    /\ pc = "deduped" =>
          LET sorted == Take(prev, order)
          IN /\ df.rows = Survivors(sorted.rows)
             /\ (/\ Len(sorted.rows) = 3
                 /\ Matches(sorted, 1, 2)
                 /\ Matches(sorted, 2, 3)
                 /\ ~Matches(sorted, 1, 3))
                   => df.rows = <<sorted.rows[1], sorted.rows[3]>>

\* C12 witness: dedupe returned A, C for such records A, B, C, and another
\* order sort_values can give the same table leaves a different number of
\* records
C12_Witness ==
    /\ pc = "deduped" /\ runs = 1
    /\ Len(prev.rows) = 3
    /\ LET sorted == Take(prev, order)
       IN /\ Matches(sorted, 1, 2)
          /\ Matches(sorted, 2, 3)
          /\ ~Matches(sorted, 1, 3)
          /\ df.rows = <<sorted.rows[1], sorted.rows[3]>>
    /\ \E p \in Indexers(Len(prev.rows)) :
          /\ IsSortIndexer(prev.rows, p)
          /\ Len(Survivors(Take(prev, p).rows)) # Len(df.rows)

----------------------------------------------------------------------------
(* Properties of the clean stage *)

Loaded == load_raw(raw_dir)

\* the run went past the title filter
PastFilter == pc \in {"filtered", "outer", "inner", "deduped"}
                 \/ (pc = "exit" /\ ~Empty(Loaded))

\* a raw title that is missing, empty or only whitespace
Untitled(row) ==
    ~("titre" \in DOMAIN row) \/ ~IsStr(row["titre"]) \/ Strip(row["titre"].v) = <<>>

\* C5: from the title filter on, so in all that dedupe scans, keeps or
\* absorbs and in the output, every record has a titre that is a non-empty
\* string; the filter drops exactly the raw records whose title is missing,
\* empty or whitespace-only.
C5_NoEmptyTitle ==
    /\ PastFilter =>
          \A n \in 1..Len(df.rows) :
              IsStr(df.rows[n]["titre"]) /\ df.rows[n]["titre"].v # <<>>
    /\ pc = "filtered" =>
          Len(df.rows) = Cardinality({n \in 1..Len(Loaded.rows) :
                                         ~Untitled(Loaded.rows[n])})
    /\ \A n \in 1..Len(out.rows) :
          IsStr(out.rows[n]["titre"]) /\ out.rows[n]["titre"].v # <<>>

\* C5 witness: dedupe has returned records from an input that also held a
\* whitespace-only title and a row of a table without a titre column
C5_Witness ==
    /\ pc = "deduped"
    /\ Len(df.rows) >= 1
    /\ \E n \in 1..Len(Loaded.rows) :
          IsStr(Loaded.rows[n]["titre"]) /\ Loaded.rows[n]["titre"].v # <<>>
             /\ Strip(Loaded.rows[n]["titre"].v) = <<>>
    /\ \E n \in 1..Len(Loaded.rows) : IsNull(Loaded.rows[n]["titre"])

AbsentColumns == Range(SCHEMA) \ Range(Loaded.columns)

\* C6 as claimed: after normalize every SCHEMA column is present in every
\* row, the columns the input lacked hold null, and no row is dropped.
C6_NullFilled ==
    pc = "normalized" =>
        /\ Range(SCHEMA) \subseteq Range(df.columns)
        /\ Len(df.rows) = Len(Loaded.rows)
        /\ \A n \in 1..Len(df.rows) :
              /\ Range(SCHEMA) \subseteq DOMAIN df.rows[n]
              /\ \A c \in AbsentColumns : df.rows[n][c] = Null

\* C6 amended: as C6_NullFilled, except that an absent titre or lien column
\* is filled with the empty string; a date_pub that does not parse is null
\* and its row stays.
C6_SchemaComplete ==
    pc = "normalized" =>
        /\ Range(SCHEMA) \subseteq Range(df.columns)
        /\ Len(df.rows) = Len(Loaded.rows)
        /\ \A n \in 1..Len(df.rows) :
              /\ Range(SCHEMA) \subseteq DOMAIN df.rows[n]
              /\ \A c \in AbsentColumns :
                    df.rows[n][c] = (IF c \in {"titre", "lien"} THEN Str(<<>>)
                                     ELSE Null)
              /\ \A c \in Range(Loaded.columns) \ {"titre", "lien", "date_pub", "domain"} :
                    df.rows[n][c] = Loaded.rows[n][c]
              /\ df.rows[n]["date_pub"].k \in {"ts", "null"}

\* C6 witness: normalize has run on an input lacking schema columns, among
\* them titre, one of whose rows has a date_pub that does not parse
C6_Witness ==
    /\ pc = "normalized"
    /\ "titre" \in AbsentColumns
    /\ "date_pub" \in Range(Loaded.columns)
    /\ \E n \in 1..Len(df.rows) :
          IsStr(Loaded.rows[n]["date_pub"]) /\ IsNull(df.rows[n]["date_pub"])

\* the clean stage has ended on an input of at least one row
EndedWithRows == pc = "exit" /\ Len(Loaded.rows) >= 1

\* C2 as claimed: a clean run on at least one input row produces the output
\* table, with ids 1..N in the order dedupe returned the records in.
C2_DenseIds ==
    EndedWithRows =>
        /\ out # NoTable
        /\ \A n \in 1..Len(out.rows) : out.rows[n]["id"] = Num(n)

\* C7 as claimed: the persisted columns are SCHEMA, then fulltext if and only
\* if enrichment was requested.
C7_OutputColumns ==
    EndedWithRows =>
        out.columns = SCHEMA \o (IF do_extract THEN <<"fulltext">> ELSE <<>>)

\* C8 as claimed: with no input table the clean stage exits non-zero; with
\* input rows of which none survives the title filter it completes normally.
C8_ExitStatus ==
    pc = "exit" =>
        /\ raw_dir = <<>> => exit_code # 0
        /\ (Len(Loaded.rows) >= 1 /\ Len(drop_untitled(normalize(Loaded)).rows) = 0)
              => exit_code = 0

\* a clean run with enrichment requested has ended and records survived
EndedEnriching == pc = "exit" /\ do_extract /\ runs >= 1 /\ Len(df.rows) >= 1

\* C11 as claimed: with enrichment requested the run is not aborted; every
\* surviving record is written with a fulltext that is what the extractor
\* returned for its lien, null when the lien is empty, and its other columns
\* are what they were after deduplication.
C11_Enrichment ==
    EndedEnriching =>
        /\ exit_code = 0
        /\ "fulltext" \in Range(out.columns)
        /\ Len(out.rows) = Len(df.rows)
        /\ \A n \in 1..Len(out.rows) :
              /\ out.rows[n]["fulltext"] \in Texts
              /\ ~Truthy(out.rows[n]["lien"]) => out.rows[n]["fulltext"] = Null
              /\ \A c \in Range(SCHEMA) \ {"id"} : out.rows[n][c] = df.rows[n][c]

----------------------------------------------------------------------------
(* Properties of the harvest stage *)

InWindow(c) == IsNull(c) \/ (since <= c.v /\ c.v <= until)

\* C9 as claimed: no row with a resolved date outside [since, until] is
\* written to an adapter's batch, and no range harvest_gdelt asks for starts
\* before since.
C9_WindowRespected ==
    /\ \A n \in 1..Len(batch.rows) : InWindow(batch.rows[n])
    /\ \A n \in 1..Len(requests) : requests[n][1] >= since

\* C10 as claimed: whatever fails inside an adapter, the harvest goes on: when
\* it has ended, the four adapters have been invoked in their fixed order.
C10_AllAdaptersRun ==
    hpc \in {"done", "raised"} =>
        calls = <<"rss_news", "rss_ngo", "openalex", "gdelt">>

\* C13 as claimed: between any two consecutive requests of an adapter there
\* is a sleep, also when the earlier request failed.
C13_SleepBetweenRequests ==
    \A m, n \in 1..Len(events) :
        (m < n /\ events[m] = "request" /\ events[n] = "request") =>
            \E k \in (m + 1)..(n - 1) : events[k] = "sleep"

====
